---- MODULE Spec2Model ----
(***************************************************************************)
(* Model of adress.finder.py: a Streamlit script that geocodes an address, *)
(* asks the Overpass API for nearby OSM address nodes and draws them on a  *)
(* Folium map.  One behaviour is a sequence of script runs; each run walks *)
(* main() from top to bottom, and st.stop() or the end of the script ends  *)
(* it.  The external services (Google geocoding, Overpass, the tile        *)
(* validation of folium.Map) answer nondeterministically.                  *)
(***************************************************************************)
EXTENDS Integers, Sequences, FiniteSets, TLC

VARIABLES
    pc,               \* position of the running script inside main()
    api_key,          \* sidebar text input (line 25)
    address_input,    \* sidebar text input (line 42)
    radius_input,     \* sidebar slider (line 45)
    button,           \* value st.sidebar.button returns in this run (line 48)
    geocode_result,   \* what gmaps_client.geocode answered in this run
    main_coords,      \* None or Some(<<lat, lon>>) (line 51)
    query,            \* the Overpass QL text, as a token sequence (line 61)
    osm_response,     \* what api.query answered in this run
    osm_data,         \* None or Some(result) (line 65)
    nearby_addresses, \* osm_data.nodes (line 72)
    tile_outcome,     \* how the first folium.Map(...) call ended
    folium_map,       \* None or Some(map) (line 77)
    displayed,        \* None or Some(map) handed to folium_static (line 81)
    address_list,     \* None or Some(list) written as a table (line 106)
    messages,         \* st.info/success/warning/error calls of this run, in order
    calls             \* requests sent to the external services in this run, in order

vars == <<pc, api_key, address_input, radius_input, button, geocode_result,
          main_coords, query, osm_response, osm_data, nearby_addresses,
          tile_outcome, folium_map, displayed, address_list, messages, calls>>

-----------------------------------------------------------------------------
(* Python values *)

None == << >>
Some(x) == <<x>>
Val(o) == o[1]

\* Python truthiness of a str: the empty string is falsy
Truthy(s) == s # ""

\* Python truthiness of None / a tuple / an overpy.Result / a list
NotNone(o) == o # None

DigitChars == <<"0", "1", "2", "3", "4", "5", "6", "7", "8", "9">>

DigitValue(c) == (CHOOSE i \in 1..Len(DigitChars) : DigitChars[i] = c) - 1

IsDigit(c) == \E i \in 1..Len(DigitChars) : DigitChars[i] = c

\* f"{n}" of a non-negative int, one character per element
RECURSIVE Digits(_)
Digits(n) ==
    IF n < Len(DigitChars)
    THEN <<DigitChars[n + 1]>>
    ELSE Digits(n \div Len(DigitChars)) \o <<DigitChars[(n % Len(DigitChars)) + 1]>>

\* f"{n}" of a non-negative int, as one string
RECURSIVE Str(_)
Str(n) ==
    IF n < Len(DigitChars)
    THEN DigitChars[n + 1]
    ELSE Str(n \div Len(DigitChars)) \o DigitChars[(n % Len(DigitChars)) + 1]

\* int(text) of a digit sequence
RECURSIVE ParseInt(_)
ParseInt(ds) ==
    IF Len(ds) = 0 THEN 0
    ELSE ParseInt(SubSeq(ds, 1, Len(ds) - 1)) * Len(DigitChars) + DigitValue(ds[Len(ds)])

\* dict.get(key, '')
TagGet(tags, key) == IF key \in DOMAIN tags THEN tags[key] ELSE ""

Msg(level, text) == [level |-> level, text |-> text]

-----------------------------------------------------------------------------
(* Inputs *)

SliderMin == 100
SliderMax == 2000
SliderStep == 100
SliderDefault == 500

SliderValues == { r \in SliderMin..SliderMax : (r - SliderMin) % SliderStep = 0 }

DefaultAddress == "Papaflessa 145, Athina, 18546"

Addresses == {DefaultAddress, "Nowhere 1"}

ApiKeys == {"", "key"}

\* longest node list an Overpass answer carries in the model
MaxNodes == 2

HN == "addr:housenumber"
ST == "addr:street"
CITY == "addr:city"
PCODE == "addr:postcode"

\* the tag mappings OSM nodes carry in the model: every way the optional tags
\* can be present, empty or missing, and nodes that lack the required ones
TagPool ==
    << (HN :> "10") @@ (ST :> "Main") @@ (CITY :> "Athens") @@ (PCODE :> "18546"),
       (HN :> "10") @@ (ST :> "Main") @@ (CITY :> "Athens"),
       (HN :> "10") @@ (ST :> "Main") @@ (PCODE :> "18546"),
       (HN :> "10") @@ (ST :> "Main"),
       (HN :> "10") @@ (ST :> "Main") @@ (CITY :> "") @@ (PCODE :> ""),
       (HN :> "10") @@ (ST :> "Main") @@ (CITY :> "Athens") @@ (PCODE :> ""),
       (CITY :> "Athens") >>

\* an overpy.Node: every node of the pool has its own position
OsmNodes == { [lat |-> 30 + i, lon |-> 20 + i, tags |-> TagPool[i]] : i \in 1..Len(TagPool) }

NodeLists == UNION { [1..n -> OsmNodes] : n \in 0..MaxNodes }

\* one entry of a Google geocoding answer
GeoEntry(lat, lng) == [geometry |-> [location |-> [lat |-> lat, lng |-> lng]]]

\* an entry without the expected keys: indexing it raises KeyError
BadEntry == [status |-> "ZERO"]

GeoLists == { << >>, <<GeoEntry(0, 0)>>, <<GeoEntry(37, 23), GeoEntry(40, 22)>>,
              <<BadEntry>> }

\* outcome of a call to an external service: it returns a value or raises
Return(v) == [kind |-> "return", value |-> Some(v), exc |-> "", e |-> ""]
Raise(cls, text) == [kind |-> "raise", value |-> None, exc |-> cls, e |-> text]
NoResponse == [kind |-> "none", value |-> None, exc |-> "", e |-> ""]

GeocodeResponses ==
    { Return(l) : l \in GeoLists } \cup { Raise("ApiError", "REQUEST_DENIED") }

OverpassResponses ==
    { Return([nodes |-> ns]) : ns \in NodeLists }
    \cup { Raise("OverpassTooManyRequests", "Too many requests"),
           Raise("OverpassGatewayTimeout", "Server load too high"),
           Raise("OverpassBadRequest", "Error: line 1: parse error") }

ClientResponses == { Return("client"), Raise("ValueError", "Invalid API key provided.") }

TileOutcomes == { "ok", "ValueError", "TypeError" }

-----------------------------------------------------------------------------
(* Helper functions of the script *)

\* isinstance(exception, cls): every exception class is an Exception, and the
\* two overpy classes the script names are siblings
IsInstance(exc, cls) == cls = "Exception" \/ exc = cls

\* geocode_address as it would be if an empty answer fell back to a default
\* position instead of None
geocode_address_default(response) ==
    IF response.kind = "raise"
    THEN [ret |-> None, msgs |-> <<Msg("error", "Geocoding error: " \o response.e)>>]
    ELSE LET result == Val(response.value) IN
         IF Len(result) > 0 /\ "geometry" \in DOMAIN result[1]
         THEN [ret |-> Some(<<result[1].geometry.location.lat,
                              result[1].geometry.location.lng>>), msgs |-> << >>]
         ELSE [ret |-> Some(<<0, 0>>), msgs |-> << >>]

\* geocode_address: the value returned and the st.error calls made, for one
\* answer of gmaps_client.geocode
geocode_address(response) ==
    IF response.kind = "raise"
    THEN [ret |-> None, msgs |-> <<Msg("error", "Geocoding error: " \o response.e)>>]
    ELSE LET result == Val(response.value) IN
         IF Len(result) > 0
         THEN IF "geometry" \in DOMAIN result[1]
              THEN LET location == result[1].geometry.location IN
                   [ret |-> Some(<<location.lat, location.lng>>), msgs |-> << >>]
              ELSE [ret |-> None,
                    msgs |-> <<Msg("error", "Geocoding error: 'geometry'")>>]
         ELSE [ret |-> None, msgs |-> << >>]

DefaultRadius == 500

\* create_overpass_query as it would be if the radius argument were dropped
\* and the default of the signature used
create_overpass_query_default(lat, lon, radius) ==
    <<"[out:json][timeout:60];", "(", "node(around:">>
    \o Digits(DefaultRadius) \o <<",">> \o Digits(lat) \o <<",">> \o Digits(lon)
    \o <<")", "[\"addr:housenumber\"]", "[\"addr:street\"]", ";", ");", "out body;">>

\* create_overpass_query: the query text; numbers are written out digit by digit
create_overpass_query(lat, lon, radius) ==
    <<"[out:json][timeout:60];", "(", "node(around:">>
    \o Digits(radius) \o <<",">> \o Digits(lat) \o <<",">> \o Digits(lon)
    \o <<")", "[\"addr:housenumber\"]", "[\"addr:street\"]", ";", ");", "out body;">>

TooManyText == "Error: Too many requests to Overpass API. Please try again later."
GatewayText == "Error: Overpass API gateway timeout. Please try again later."
GenericText(e) == "An error occurred while fetching OSM data: " \o e

\* fetch_osm_data as it would be with the generic handler alone
fetch_osm_data_generic(response) ==
    IF response.kind = "return"
    THEN [ret |-> response.value, msgs |-> << >>]
    ELSE [ret |-> None, msgs |-> <<Msg("error", GenericText(response.e))>>]

\* fetch_osm_data: the value returned and the st.error calls made, for one
\* answer of api.query
fetch_osm_data(response) ==
    IF response.kind = "return"
    THEN [ret |-> response.value, msgs |-> << >>]
    ELSE IF IsInstance(response.exc, "OverpassTooManyRequests")
    THEN [ret |-> None, msgs |-> <<Msg("error", TooManyText)>>]
    ELSE IF IsInstance(response.exc, "OverpassGatewayTimeout")
    THEN [ret |-> None, msgs |-> <<Msg("error", GatewayText)>>]
    ELSE [ret |-> None, msgs |-> <<Msg("error", GenericText(response.e))>>]

\* address_display as it would be if the city-only branch wrote the postcode
address_display_swapped(tags) ==
    LET housenumber == TagGet(tags, HN)
        street == TagGet(tags, ST)
        city == TagGet(tags, CITY)
        postcode == TagGet(tags, PCODE)
    IN  IF Truthy(city) /\ Truthy(postcode)
        THEN housenumber \o " " \o street \o ", " \o city \o " " \o postcode
        ELSE IF Truthy(city)
        THEN housenumber \o " " \o street \o ", " \o postcode
        ELSE IF Truthy(postcode)
        THEN housenumber \o " " \o street \o ", " \o postcode
        ELSE housenumber \o " " \o street

\* the display string generate_folium_map builds for one node
address_display(tags) ==
    LET housenumber == TagGet(tags, HN)
        street == TagGet(tags, ST)
        city == TagGet(tags, CITY)
        postcode == TagGet(tags, PCODE)
    IN  IF Truthy(city) /\ Truthy(postcode)
        THEN housenumber \o " " \o street \o ", " \o city \o " " \o postcode
        ELSE IF Truthy(city)
        THEN housenumber \o " " \o street \o ", " \o city
        ELSE IF Truthy(postcode)
        THEN housenumber \o " " \o street \o ", " \o postcode
        ELSE housenumber \o " " \o street

\* the display string main builds for one node of the table
list_address_display(tags) ==
    LET housenumber == TagGet(tags, HN)
        street == TagGet(tags, ST)
        city == TagGet(tags, CITY)
        postcode == TagGet(tags, PCODE)
    IN  IF Truthy(city) /\ Truthy(postcode)
        THEN housenumber \o " " \o street \o ", " \o city \o " " \o postcode
        ELSE IF Truthy(city)
        THEN housenumber \o " " \o street \o ", " \o city
        ELSE IF Truthy(postcode)
        THEN housenumber \o " " \o street \o ", " \o postcode
        ELSE housenumber \o " " \o street

\* the loop of main that fills address_list
build_address_list(nodes) ==
    [i \in 1..Len(nodes) |-> list_address_display(nodes[i].tags)]

ZoomStart == 17

\* init_map as it would be if the except branch built the same map again
init_map_nofallback(coords, tile) ==
    [location |-> coords, zoom_start |-> ZoomStart, tiles |-> "Stamen Toner",
     attr |-> "Map tiles by Stamen Design, under CC BY 3.0. Data by OpenStreetMap, under ODbL."]

\* the folium.Map the script ends up with: the preferred tiles, or the
\* OpenStreetMap tiles after a ValueError
init_map(coords, tile) ==
    IF tile = "ValueError"
    THEN [location |-> coords, zoom_start |-> ZoomStart, tiles |-> "OpenStreetMap",
          attr |-> ""]
    ELSE [location |-> coords, zoom_start |-> ZoomStart, tiles |-> "Stamen Toner",
          attr |-> "Map tiles by Stamen Design, under CC BY 3.0. Data by OpenStreetMap, under ODbL."]

main_marker(main_address, coords) ==
    [location |-> coords,
     popup |-> "<b>Main Address:</b><br>" \o main_address,
     icon |-> [color |-> "red", icon |-> "info-sign"]]

radius_circle(coords, radius) ==
    [radius |-> radius, location |-> coords, popup |-> "Search Radius",
     color |-> "blue", fill |-> FALSE]

\* cluster_markers as it would be if a node whose display string was already
\* seen were skipped
RECURSIVE cluster_markers_dedup(_)
cluster_markers_dedup(nodes) ==
    IF Len(nodes) = 0 THEN << >>
    ELSE LET front == cluster_markers_dedup(SubSeq(nodes, 1, Len(nodes) - 1))
             last == nodes[Len(nodes)]
         IN  IF \E i \in 1..Len(front) : front[i].popup = address_display(last.tags)
             THEN front
             ELSE Append(front, [location |-> <<last.lat, last.lon>>,
                                 popup |-> address_display(last.tags),
                                 icon |-> [color |-> "blue", icon |-> "home"]])

\* cluster_markers as it would be with latitude and longitude exchanged
cluster_markers_swapped(nodes) ==
    [i \in 1..Len(nodes) |->
        [location |-> <<nodes[i].lon, nodes[i].lat>>,
         popup |-> address_display(nodes[i].tags),
         icon |-> [color |-> "blue", icon |-> "home"]]]

\* the loop of generate_folium_map that fills the marker cluster
cluster_markers(nodes) ==
    [i \in 1..Len(nodes) |->
        [location |-> <<nodes[i].lat, nodes[i].lon>>,
         popup |-> address_display(nodes[i].tags),
         icon |-> [color |-> "blue", icon |-> "home"]]]

\* the text of the ValueError folium raises
TileError == "Custom tiles must have an attribution."

TileWarning == "Tile attribution error: " \o TileError \o ". Switching to 'OpenStreetMap' tiles."

\* generate_folium_map, for a tile outcome the script survives: the map
\* returned and the st.warning calls made
generate_folium_map(main_address, coords, nodes, radius, tile) ==
    [ret |-> Some([base |-> init_map(coords, tile),
                   markers |-> <<main_marker(main_address, coords)>>,
                   circles |-> <<radius_circle(coords, radius)>>,
                   cluster |-> cluster_markers(nodes)]),
     msgs |-> IF tile = "ValueError" THEN <<Msg("warning", TileWarning)>> ELSE << >>]

-----------------------------------------------------------------------------
(* The script, one run at a time *)

Finished == pc \in {"done", "stopped", "crashed"}

\* what a run starts from: nothing computed, shown or requested yet
FreshRun ==
    /\ pc' = "start"
    /\ geocode_result' = NoResponse
    /\ main_coords' = None
    /\ query' = << >>
    /\ osm_response' = NoResponse
    /\ osm_data' = None
    /\ nearby_addresses' = << >>
    /\ tile_outcome' = "none"
    /\ folium_map' = None
    /\ displayed' = None
    /\ address_list' = None
    /\ messages' = << >>
    /\ calls' = << >>

\* the first run of a session: every widget holds its default, the button
\* has not been clicked
Init ==
    /\ pc = "start"
    /\ api_key = ""
    /\ address_input = DefaultAddress
    /\ radius_input = SliderDefault
    /\ button = FALSE
    /\ geocode_result = NoResponse
    /\ main_coords = None
    /\ query = << >>
    /\ osm_response = NoResponse
    /\ osm_data = None
    /\ nearby_addresses = << >>
    /\ tile_outcome = "none"
    /\ folium_map = None
    /\ displayed = None
    /\ address_list = None
    /\ messages = << >>
    /\ calls = << >>

\* the user edits the API key: Streamlit runs the script again
EditApiKey ==
    /\ Finished
    /\ \E k \in ApiKeys : k # api_key /\ api_key' = k
    /\ button' = FALSE
    /\ UNCHANGED <<address_input, radius_input>>
    /\ FreshRun

\* the user edits the address
EditAddress ==
    /\ Finished
    /\ \E a \in Addresses : a # address_input /\ address_input' = a
    /\ button' = FALSE
    /\ UNCHANGED <<api_key, radius_input>>
    /\ FreshRun

\* the user moves the slider
MoveSlider ==
    /\ Finished
    /\ \E r \in SliderValues : r # radius_input /\ radius_input' = r
    /\ button' = FALSE
    /\ UNCHANGED <<api_key, address_input>>
    /\ FreshRun

\* the user clicks "Generate Map": the button is True in the run it starts
ClickGenerate ==
    /\ Finished
    /\ button' = TRUE
    /\ UNCHANGED <<api_key, address_input, radius_input>>
    /\ FreshRun

\* lines 25-30
CheckApiKey ==
    /\ pc = "start"
    /\ IF ~Truthy(api_key)
       THEN /\ messages' = Append(messages,
                    Msg("warning", "Please enter your Google Maps API key to proceed."))
            /\ pc' = "stopped"
       ELSE /\ messages' = messages
            /\ pc' = "client"
    /\ UNCHANGED <<api_key, address_input, radius_input, button, geocode_result,
                   main_coords, query, osm_response, osm_data, nearby_addresses,
                   tile_outcome, folium_map, displayed, address_list, calls>>

\* lines 33-37
InitClient ==
    /\ pc = "client"
    /\ \E response \in ClientResponses :
          IF response.kind = "raise"
          THEN /\ messages' = Append(messages,
                       Msg("error", "Invalid API Key or connection error: " \o response.e))
               /\ pc' = "stopped"
          ELSE /\ messages' = messages
               /\ pc' = "button"
    /\ UNCHANGED <<api_key, address_input, radius_input, button, geocode_result,
                   main_coords, query, osm_response, osm_data, nearby_addresses,
                   tile_outcome, folium_map, displayed, address_list, calls>>

\* lines 48-50
CheckButton ==
    /\ pc = "button"
    /\ IF button
       THEN /\ messages' = Append(messages, Msg("info", "Geocoding the address..."))
            /\ pc' = "geocode"
       ELSE /\ messages' = messages
            /\ pc' = "done"
    /\ UNCHANGED <<api_key, address_input, radius_input, button, geocode_result,
                   main_coords, query, osm_response, osm_data, nearby_addresses,
                   tile_outcome, folium_map, displayed, address_list, calls>>

\* Geocode as it would be if a raised exception were answered by one more request
Geocode_retry ==
    /\ pc = "geocode"
    /\ \E response \in GeocodeResponses :
          LET out == geocode_address(response)
              call == [svc |-> "geocode", arg |-> <<address_input, "el">>] IN
          /\ geocode_result' = response
          /\ calls' = IF response.kind = "raise" THEN calls \o <<call, call>>
                      ELSE Append(calls, call)
          /\ main_coords' = out.ret
          /\ messages' = messages \o out.msgs
    /\ pc' = "geocoded"
    /\ UNCHANGED <<api_key, address_input, radius_input, button, query, osm_response,
                   osm_data, nearby_addresses, tile_outcome, folium_map, displayed,
                   address_list>>

\* line 51 and geocode_address
Geocode ==
    /\ pc = "geocode"
    /\ \E response \in GeocodeResponses :
          LET out == geocode_address(response) IN
          /\ geocode_result' = response
          /\ calls' = Append(calls, [svc |-> "geocode", arg |-> <<address_input, "el">>])
          /\ main_coords' = out.ret
          /\ messages' = messages \o out.msgs
    /\ pc' = "geocoded"
    /\ UNCHANGED <<api_key, address_input, radius_input, button, query, osm_response,
                   osm_data, nearby_addresses, tile_outcome, folium_map, displayed,
                   address_list>>

\* lines 53-58
CheckCoords ==
    /\ pc = "geocoded"
    /\ IF ~NotNone(main_coords)
       THEN /\ messages' = Append(messages,
                    Msg("error", "Geocoding failed: Address not found."))
            /\ pc' = "stopped"
       ELSE /\ messages' = Append(messages,
                    Msg("success", "Coordinates: Latitude = " \o Str(Val(main_coords)[1])
                                   \o ", Longitude = " \o Str(Val(main_coords)[2])))
            /\ pc' = "query"
    /\ UNCHANGED <<api_key, address_input, radius_input, button, geocode_result,
                   main_coords, query, osm_response, osm_data, nearby_addresses,
                   tile_outcome, folium_map, displayed, address_list, calls>>

\* lines 57-64
CreateQuery ==
    /\ pc = "query"
    /\ query' = create_overpass_query(Val(main_coords)[1], Val(main_coords)[2], radius_input)
    /\ messages' = Append(messages,
            Msg("info", "Fetching nearby addresses from OpenStreetMap..."))
    /\ pc' = "fetch"
    /\ UNCHANGED <<api_key, address_input, radius_input, button, geocode_result,
                   main_coords, osm_response, osm_data, nearby_addresses, tile_outcome,
                   folium_map, displayed, address_list, calls>>

\* line 65 and fetch_osm_data
FetchOsmData ==
    /\ pc = "fetch"
    /\ \E response \in OverpassResponses :
          LET out == fetch_osm_data(response) IN
          /\ osm_response' = response
          /\ calls' = Append(calls, [svc |-> "overpass", arg |-> query])
          /\ osm_data' = out.ret
          /\ messages' = messages \o out.msgs
    /\ pc' = "fetched"
    /\ UNCHANGED <<api_key, address_input, radius_input, button, geocode_result,
                   main_coords, query, nearby_addresses, tile_outcome, folium_map,
                   displayed, address_list>>

FoundText(n) == "Found " \o Str(n) \o " nearby addresses."

\* CheckOsmData as it would be if a result without nodes were falsy
CheckOsmData_emptyfalsy ==
    /\ pc = "fetched"
    /\ IF ~NotNone(osm_data) \/ Len(Val(osm_data).nodes) = 0
       THEN /\ messages' = Append(messages, Msg("error", "No OSM data retrieved."))
            /\ nearby_addresses' = nearby_addresses
            /\ pc' = "stopped"
       ELSE /\ nearby_addresses' = Val(osm_data).nodes
            /\ messages' = messages \o
                    << Msg("success", FoundText(Len(Val(osm_data).nodes))),
                       Msg("info", "Generating the map...") >>
            /\ pc' = "render"
    /\ UNCHANGED <<api_key, address_input, radius_input, button, geocode_result,
                   main_coords, query, osm_response, osm_data, tile_outcome,
                   folium_map, displayed, address_list, calls>>

\* CheckOsmData as it would be without the st.stop() of line 69
CheckOsmData_nostop ==
    /\ pc = "fetched"
    /\ IF ~NotNone(osm_data)
       THEN /\ messages' = Append(messages, Msg("error", "No OSM data retrieved."))
            /\ nearby_addresses' = nearby_addresses
       ELSE /\ nearby_addresses' = Val(osm_data).nodes
            /\ messages' = messages \o
                    << Msg("success", FoundText(Len(Val(osm_data).nodes))),
                       Msg("info", "Generating the map...") >>
    /\ pc' = "render"
    /\ UNCHANGED <<api_key, address_input, radius_input, button, geocode_result,
                   main_coords, query, osm_response, osm_data, tile_outcome,
                   folium_map, displayed, address_list, calls>>

\* lines 67-76
CheckOsmData ==
    /\ pc = "fetched"
    /\ IF ~NotNone(osm_data)
       THEN /\ messages' = Append(messages, Msg("error", "No OSM data retrieved."))
            /\ nearby_addresses' = nearby_addresses
            /\ pc' = "stopped"
       ELSE /\ nearby_addresses' = Val(osm_data).nodes
            /\ messages' = messages \o
                    << Msg("success", FoundText(Len(Val(osm_data).nodes))),
                       Msg("info", "Generating the map...") >>
            /\ pc' = "render"
    /\ UNCHANGED <<api_key, address_input, radius_input, button, geocode_result,
                   main_coords, query, osm_response, osm_data, tile_outcome,
                   folium_map, displayed, address_list, calls>>

\* line 77 and generate_folium_map; an exception of the first folium.Map call
\* that is no ValueError leaves the function and the script
GenerateMap ==
    /\ pc = "render"
    /\ \E tile \in TileOutcomes :
          /\ tile_outcome' = tile
          /\ IF tile \in {"ok", "ValueError"}
             THEN LET out == generate_folium_map(address_input, Val(main_coords),
                                                 nearby_addresses, radius_input, tile) IN
                  /\ folium_map' = out.ret
                  /\ messages' = messages \o out.msgs
                  /\ pc' = "display"
             ELSE /\ folium_map' = folium_map
                  /\ messages' = messages
                  /\ pc' = "crashed"
    /\ UNCHANGED <<api_key, address_input, radius_input, button, geocode_result,
                   main_coords, query, osm_response, osm_data, nearby_addresses,
                   displayed, address_list, calls>>

\* lines 80-81
DisplayMap ==
    /\ pc = "display"
    /\ displayed' = folium_map
    /\ pc' = "checkbox"
    /\ UNCHANGED <<api_key, address_input, radius_input, button, geocode_result,
                   main_coords, query, osm_response, osm_data, nearby_addresses,
                   tile_outcome, folium_map, address_list, messages, calls>>

\* lines 84-106; the value st.checkbox returns is an input of the run
ShowNearbyAddresses ==
    /\ pc = "checkbox"
    /\ \E checked \in BOOLEAN :
          address_list' = IF checked THEN Some(build_address_list(nearby_addresses))
                          ELSE address_list
    /\ pc' = "done"
    /\ UNCHANGED <<api_key, address_input, radius_input, button, geocode_result,
                   main_coords, query, osm_response, osm_data, nearby_addresses,
                   tile_outcome, folium_map, displayed, messages, calls>>

Next ==
    \/ EditApiKey
    \/ EditAddress
    \/ MoveSlider
    \/ ClickGenerate
    \/ CheckApiKey
    \/ InitClient
    \/ CheckButton
    \/ Geocode
    \/ CheckCoords
    \/ CreateQuery
    \/ FetchOsmData
    \/ CheckOsmData
    \/ GenerateMap
    \/ DisplayMap
    \/ ShowNearbyAddresses

Spec == Init /\ [][Next]_vars

-----------------------------------------------------------------------------
(* Properties *)

CallsTo(svc) == SelectSeq(calls, LAMBDA c : c.svc = svc)

HasMsg(level, text) == \E i \in 1..Len(messages) : messages[i] = Msg(level, text)

LastMsg == messages[Len(messages)]

\* the geocoding service answered, with no result at all
ZeroResults == geocode_result.kind = "return" /\ Val(geocode_result.value) = << >>

\* the geocoding stage failed: no result, or an exception inside geocode_address
GeocodeFailed ==
    \/ ZeroResults
    \/ geocode_result.kind = "raise"
    \/ geocode_result.kind = "return" /\ Val(geocode_result.value) = <<BadEntry>>

SearchFailed == osm_response.kind = "raise"

NotFoundText == "Geocoding failed: Address not found."

\* C1: when the geocoding service returns zero results, the run halts with the
\* "address not found" error and no Overpass request is issued in that run.
C1_NoSearchAfterNotFound ==
    ZeroResults =>
        /\ main_coords = None
        /\ pc \in {"geocoded", "stopped"}
        /\ pc = "stopped" => LastMsg = Msg("error", NotFoundText)
        /\ Len(CallsTo("overpass")) = 0
        /\ osm_response = NoResponse
        /\ query = << >>

C1_Witness == ZeroResults /\ pc = "stopped"

\* C2: a map is generated or displayed only in a run whose geocoding returned a
\* coordinate and whose Overpass search returned a result; when either stage
\* fails the run stops with no map generated and none displayed.
C2_NoPartialMap ==
    /\ (folium_map # None \/ displayed # None) =>
          /\ ~GeocodeFailed /\ geocode_result.kind = "return"
          /\ main_coords # None
          /\ osm_response.kind = "return"
          /\ osm_data # None
    /\ displayed # None => displayed = folium_map
    /\ (GeocodeFailed \/ SearchFailed) =>
          /\ folium_map = None /\ displayed = None
          /\ pc \in {"geocoded", "fetched", "stopped"}

C2_Witness == SearchFailed /\ pc = "stopped" /\ displayed = None

\* C8: in one run at most one geocoding request and at most one Overpass
\* request are issued, and the Overpass request comes after the geocoding
\* request has returned a coordinate.
C8_NoRetry ==
    /\ Len(CallsTo("geocode")) <= 1
    /\ Len(CallsTo("overpass")) <= 1
    /\ Len(CallsTo("overpass")) = 1 =>
          /\ Len(calls) = 2
          /\ calls[1].svc = "geocode" /\ calls[2].svc = "overpass"
          /\ main_coords # None /\ ~GeocodeFailed
    /\ Len(CallsTo("geocode")) = 1 <=> geocode_result # NoResponse
    /\ Len(CallsTo("overpass")) = 1 <=> osm_response # NoResponse

C8_Witness == SearchFailed /\ pc = "stopped" /\ Len(calls) = 2

NoErrorShown == \A i \in 1..Len(messages) : messages[i].level # "error"

\* the st.error calls fetch_osm_data can make for the answer of this run
FetchErrors ==
    SelectSeq(messages,
              LAMBDA m : m.text \in {TooManyText, GatewayText, GenericText(osm_response.e)})

\* the message the failure kind calls for
ExpectedFetchError ==
    CASE osm_response.exc = "OverpassTooManyRequests" -> TooManyText
      [] osm_response.exc = "OverpassGatewayTimeout" -> GatewayText
      [] OTHER -> GenericText(osm_response.e)

\* C3: a failed Overpass search emits exactly one of three pairwise distinct
\* error messages, chosen by the failure kind (rate limit, gateway timeout,
\* anything else); fetch_osm_data returns None and the run halts.
C3_FailureTaxonomy ==
    SearchFailed =>
        /\ osm_data = None
        /\ FetchErrors = <<Msg("error", ExpectedFetchError)>>
        /\ TooManyText # GatewayText
        /\ TooManyText # GenericText(osm_response.e)
        /\ GatewayText # GenericText(osm_response.e)
        /\ pc \in {"fetched", "stopped"}
        /\ pc = "stopped" => LastMsg = Msg("error", "No OSM data retrieved.")
        /\ folium_map = None /\ displayed = None

C3_Witness ==
    /\ osm_response.exc = "OverpassTooManyRequests"
    /\ pc = "stopped"
    /\ HasMsg("error", TooManyText)

\* the search succeeded and found no node
EmptyResult == osm_response.kind = "return" /\ Val(osm_response.value).nodes = << >>

\* C4 as stated: an empty result set ends the run there (a terminal
\* condition), without an error and apart from a search failure.
C4_EmptyIsTerminal ==
    (EmptyResult /\ pc # "fetched") =>
        /\ pc = "stopped"
        /\ folium_map = None
        /\ NoErrorShown

\* C4, amended: an empty result set is no error and does not end the run: it
\* is reported by the success message "Found 0 nearby addresses.", never by
\* the error a failed search gets, and the run goes on to generate the map,
\* whose marker cluster is empty.
C4_EmptyIsNotTerminal ==
    EmptyResult =>
        /\ osm_data # None
        /\ NoErrorShown
        /\ pc # "stopped"
        /\ pc # "fetched" =>
              /\ HasMsg("success", FoundText(0))
              /\ pc \in {"render", "display", "checkbox", "done", "crashed"}
        /\ pc \in {"checkbox", "done"} =>
              /\ displayed # None
              /\ Val(displayed).cluster = << >>
              /\ Len(Val(displayed).markers) = 1

C4_Witness == EmptyResult /\ pc = "done" /\ displayed # None

AroundIdx(q) == CHOOSE i \in 1..Len(q) : q[i] = "node(around:"

\* the run of digits of q that starts at position i
RECURSIVE TakeDigits(_, _)
TakeDigits(q, i) ==
    IF i <= Len(q) /\ IsDigit(q[i]) THEN <<q[i]>> \o TakeDigits(q, i + 1) ELSE << >>

\* the number written after "around:" in a query text
QueryRadius(q) == ParseInt(TakeDigits(q, AroundIdx(q) + 1))

\* C5: the radius written into the Overpass query, the radius of the query
\* that is sent and the radius of the circle on the map all equal the slider
\* value, which is one of 100, 200, ..., 2000.
C5_RadiusUnchanged ==
    /\ radius_input \in SliderValues
    /\ query # << >> => QueryRadius(query) = radius_input
    /\ \A i \in 1..Len(calls) :
          calls[i].svc = "overpass" => QueryRadius(calls[i].arg) = radius_input
    /\ folium_map # None =>
          \A i \in 1..Len(Val(folium_map).circles) :
              Val(folium_map).circles[i].radius = radius_input
    /\ displayed # None =>
          /\ Len(Val(displayed).circles) = 1
          /\ Val(displayed).circles[1].radius = radius_input

C5_Witness ==
    /\ displayed # None
    /\ radius_input = SliderMax
    /\ Len(calls) = 2
    /\ QueryRadius(calls[2].arg) = SliderMax
    /\ Val(displayed).circles[1].radius = SliderMax

Present(tags, key) == key \in DOMAIN tags /\ tags[key] # ""

Base(tags) == TagGet(tags, HN) \o " " \o TagGet(tags, ST)

\* the template the presence of city and postcode selects
Template(tags) ==
    CASE Present(tags, CITY) /\ Present(tags, PCODE) ->
             Base(tags) \o ", " \o tags[CITY] \o " " \o tags[PCODE]
      [] Present(tags, CITY) /\ ~Present(tags, PCODE) -> Base(tags) \o ", " \o tags[CITY]
      [] ~Present(tags, CITY) /\ Present(tags, PCODE) -> Base(tags) \o ", " \o tags[PCODE]
      [] ~Present(tags, CITY) /\ ~Present(tags, PCODE) -> Base(tags)

ScenarioTags == (HN :> "10") @@ (ST :> "Main") @@ (CITY :> "Athens")

\* C6: every display string on the map and in the table is the one template,
\* of four, that the non-empty ones of city and postcode select (a missing tag
\* counts as absent); it is never empty; house number "10", street "Main",
\* city "Athens" and no postcode give "10 Main, Athens".
C6_FormattingTotal ==
    /\ folium_map # None =>
          \A i \in 1..Len(Val(folium_map).cluster) :
              /\ Val(folium_map).cluster[i].popup = Template(nearby_addresses[i].tags)
              /\ Val(folium_map).cluster[i].popup # ""
              /\ nearby_addresses[i].tags = ScenarioTags =>
                    Val(folium_map).cluster[i].popup = "10 Main, Athens"
    /\ address_list # None =>
          \A i \in 1..Len(Val(address_list)) :
              /\ Val(address_list)[i] = Template(nearby_addresses[i].tags)
              /\ Val(address_list)[i] # ""
              /\ nearby_addresses[i].tags = ScenarioTags =>
                    Val(address_list)[i] = "10 Main, Athens"

C6_Witness ==
    /\ folium_map # None
    /\ Len(nearby_addresses) > 0
    /\ nearby_addresses[1].tags = ScenarioTags
    /\ Val(folium_map).cluster[1].popup = "10 Main, Athens"

\* C7: when the preferred tiles raise a ValueError the map is built on the
\* OpenStreetMap tiles, a warning and no error is emitted, and the run goes
\* on: the primary marker, the circle and every nearby marker are on the map
\* that is returned and displayed.
C7_TileFallback ==
    tile_outcome = "ValueError" =>
        /\ pc \in {"display", "checkbox", "done"}
        /\ folium_map # None
        /\ Val(folium_map).base.tiles = "OpenStreetMap"
        /\ HasMsg("warning", TileWarning)
        /\ NoErrorShown
        /\ Len(Val(folium_map).markers) = 1
        /\ Len(Val(folium_map).circles) = 1
        /\ Len(Val(folium_map).cluster) = Len(nearby_addresses)
        /\ pc \in {"checkbox", "done"} => displayed = folium_map

C7_Witness ==
    /\ tile_outcome = "ValueError"
    /\ pc = "done"
    /\ displayed # None
    /\ Len(Val(displayed).cluster) = MaxNodes

Popups(m) == [i \in 1..Len(m.cluster) |-> m.cluster[i].popup]

NoDuplicates(seq) == \A i, j \in 1..Len(seq) : seq[i] = seq[j] => i = j

\* C9 as stated: the display strings rendered and listed hold each string at
\* most once.
C9_Deduplicated ==
    /\ displayed # None => NoDuplicates(Popups(Val(displayed)))
    /\ address_list # None => NoDuplicates(Val(address_list))

\* C9, amended: nothing is deduplicated: the display strings rendered and
\* listed are the display strings of the records of the search result, one
\* per record and in the order of the search result, so a string occurs as
\* often as records have it.
C9_OnePerRecordInOrder ==
    /\ displayed # None =>
          /\ Len(Popups(Val(displayed))) = Len(Val(osm_data).nodes)
          /\ \A i \in 1..Len(Val(osm_data).nodes) :
                Popups(Val(displayed))[i] = Template(Val(osm_data).nodes[i].tags)
    /\ address_list # None =>
          /\ Len(Val(address_list)) = Len(Val(osm_data).nodes)
          /\ \A i \in 1..Len(Val(osm_data).nodes) :
                Val(address_list)[i] = Template(Val(osm_data).nodes[i].tags)

C9_Witness ==
    /\ displayed # None
    /\ address_list # None
    /\ Len(Val(address_list)) = MaxNodes
    /\ ~NoDuplicates(Popups(Val(displayed)))
    /\ ~NoDuplicates(Val(address_list))

\* C10: the map returned holds one marker at the primary coordinate, one
\* unfilled circle centred on it, and one clustered marker per nearby record,
\* at the record's own position and with the record's display string as
\* popup; there are as many clustered markers as records reported found.
C10_MapContents ==
    folium_map # None =>
        LET m == Val(folium_map) IN
        /\ Len(m.markers) = 1
        /\ m.markers[1].location = Val(main_coords)
        /\ m.markers[1].icon.color = "red"
        /\ Len(m.circles) = 1
        /\ m.circles[1].location = Val(main_coords)
        /\ m.circles[1].fill = FALSE
        /\ m.base.location = Val(main_coords)
        /\ Len(m.cluster) = Len(nearby_addresses)
        /\ \A i \in 1..Len(nearby_addresses) :
              /\ m.cluster[i].location = <<nearby_addresses[i].lat, nearby_addresses[i].lon>>
              /\ m.cluster[i].popup = Template(nearby_addresses[i].tags)
        /\ HasMsg("success", FoundText(Len(m.cluster)))

C10_Witness ==
    /\ displayed # None
    /\ Len(Val(displayed).cluster) = MaxNodes
    /\ Val(displayed).cluster[1].location # Val(displayed).cluster[MaxNodes].location
====
